---- MODULE Spec2Model ----
(***************************************************************************)
(* Model of src/healthkit_data_processor.py: the HealthKitDataProcessor    *)
(* class and its driver process_sample_healthkit_data.                     *)
(*                                                                         *)
(* Conventions.                                                            *)
(*  - A timestamp string ("2024-01-01T10:05:00") is a pair <<hour, minute>>;*)
(*    pd.to_datetime turns it into a number of minutes, isoformat() turns  *)
(*    a number of minutes back into the pair.                              *)
(*  - A float is a fixed-point integer: heart rates, their mean and        *)
(*    standard deviation in hundredths, ratios (cv, pNN50, probabilities)  *)
(*    in thousandths, the data quality score in tenths.  NaN and NaT are   *)
(*    values of their own.                                                 *)
(*  - A DataFrame is the sequence of its rows, a row a record.             *)
(***************************************************************************)
EXTENDS Integers, Sequences, FiniteSets, TLC

(***************************************************************************)
(* Bounds of the model.                                                    *)
(***************************************************************************)
\* free samples added to the generated blocks, over both input lists
MaxExtra == 2
\* largest window handed to the quality scorer on its own
MaxWindowSamples == 60
MaxRuns == 2

(***************************************************************************)
(* Program constants.                                                      *)
(***************************************************************************)
MinSamples == 10
HRMin == 30
HRMax == 250
HRVMin == 1
HRVMax == 200
GoodSampleSize == 50
AcceptableSampleSize == 20
GoodHRVCount == 5

\* Python's None, where a record is expected
None == [none |-> TRUE]
\* float NaN: no statistic of validated samples is negative
NaN == -1
\* pandas NaT: no timestamp is negative
NaT == -1
\* a frame not assigned yet
NoFrame == <<>>

(***************************************************************************)
(* Timestamps.                                                             *)
(***************************************************************************)
\* datetime.isoformat(): minutes -> <<hour, minute>>; NaT prints as "NaT"
isoformat(t) == IF t = NaT THEN <<NaT, NaT>> ELSE <<t \div 60, t % 60>>

\* pd.to_datetime on one timestamp string
to_datetime(s) == s[1] * 60 + s[2]

\* timedelta(hours=h), in minutes
timedelta_hours(h) == h * 60

(***************************************************************************)
(* Sequence helpers (pandas column operations).                            *)
(***************************************************************************)
RECURSIVE SumSeq(_)
SumSeq(s) == IF s = <<>> THEN 0 ELSE Head(s) + SumSeq(Tail(s))

\* the largest entry of a non-empty column
MaxSeq(s) ==
    CHOOSE m \in {s[i] : i \in DOMAIN s} : \A i \in DOMAIN s : s[i] <= m

Column(df, c) == [i \in 1..Len(df) |-> df[i][c]]

\* the place of row i when the rows are ordered by startDate, rows that tie
\* keeping their order
SortedPosition(df, i) ==
    Cardinality({j \in DOMAIN df :
        \/ df[j].startDate < df[i].startDate
        \/ (df[j].startDate = df[i].startDate /\ j <= i)})

\* df.sort_values('startDate').reset_index(drop=True)
sort_values(df) ==
    [k \in 1..Len(df) |-> df[CHOOSE i \in DOMAIN df : SortedPosition(df, i) = k]]

\* Series.max() of a timestamp column: NaT for an empty column
SeriesMax(col) == IF col = <<>> THEN NaT ELSE MaxSeq(col)

\* Python's max(a, b) on timestamps: b only when b > a; every comparison
\* with NaT is False
PyMax(a, b) == IF a = NaT \/ b = NaT THEN a ELSE IF b > a THEN b ELSE a

\* largest r with r * r <= n
RECURSIVE IsqrtBetween(_, _, _)
IsqrtBetween(n, lo, hi) ==
    IF lo >= hi THEN lo
    ELSE LET mid == (lo + hi + 1) \div 2
         IN IF mid * mid <= n THEN IsqrtBetween(n, mid, hi)
            ELSE IsqrtBetween(n, lo, mid - 1)

\* n is taken once, then searched for
Isqrt(n) == CHOOSE r \in {IsqrtBetween(m, 0, 30000) : m \in {n}} : TRUE

Min2(a, b) == IF a < b THEN a ELSE b
Max2(a, b) == IF a > b THEN a ELSE b

(***************************************************************************)
(* Series statistics, in hundredths.                                       *)
(***************************************************************************)
\* Series.mean(): NaN for an empty series
SeriesMean(vals) ==
    IF vals = <<>> THEN NaN ELSE (SumSeq(vals) * 100) \div Len(vals)

\* Series.std(), sample standard deviation (ddof=1): NaN below two values
SeriesStd(vals) ==
    IF Len(vals) < 2 THEN NaN
    ELSE LET n   == Len(vals)
             s   == SumSeq(vals)
             sq  == SumSeq([i \in 1..n |-> vals[i] * vals[i]])
             num == n * sq - s * s
             den == n * (n - 1)
             var == (num \div den) * 10000 + ((num % den) * 10000) \div den
         IN Isqrt(var)


(***************************************************************************)
(* Validation and ingestion.                                               *)
(***************************************************************************)
\* df[(df['value'] >= 30) & (df['value'] <= 250)], strict at both ends
validate_heart_rate_strict(df) ==
    SelectSeq(df, LAMBDA r : r.value > HRMin /\ r.value < HRMax)

\* _validate_heart_rate_data
validate_heart_rate_data(df) ==
    SelectSeq(df, LAMBDA r : r.value >= HRMin /\ r.value <= HRMax)

\* _validate_hrv_data
validate_hrv_data(df) ==
    SelectSeq(df, LAMBDA r : r.value >= HRVMin /\ r.value <= HRVMax)

\* the number the validator prints as removed (0: nothing is printed)
RemovedCount(before, after) == Len(before) - Len(after)

\* pd.DataFrame(list) with startDate and endDate converted by pd.to_datetime
ToFrame(data) ==
    [i \in 1..Len(data) |->
        [data[i] EXCEPT !.startDate = to_datetime(data[i].startDate),
                        !.endDate = to_datetime(data[i].endDate)]]

ValueError(fn, msg, args) ==
    [type |-> "ValueError", raised_by |-> fn, msg |-> msg, args |-> args]

NoArgs == [none |-> TRUE]

Raise(e) == [ok |-> FALSE, error |-> e, value |-> NoFrame]
Return(v) == [ok |-> TRUE, error |-> None, value |-> v]

\* process_healthkit_heart_rate with the emptiness test after the filter
process_healthkit_heart_rate_late_check(heart_rate_data) ==
    LET df == validate_heart_rate_data(ToFrame(heart_rate_data))
    IN IF df = <<>>
       THEN Raise(ValueError("process_healthkit_heart_rate",
                             "No heart rate data provided", NoArgs))
       ELSE Return(sort_values(df))

\* process_healthkit_heart_rate with the result of sort_values dropped
process_healthkit_heart_rate_unsorted(heart_rate_data) ==
    IF heart_rate_data = <<>>
    THEN Raise(ValueError("process_healthkit_heart_rate",
                          "No heart rate data provided", NoArgs))
    ELSE Return(validate_heart_rate_data(ToFrame(heart_rate_data)))

process_healthkit_heart_rate(heart_rate_data) ==
    IF heart_rate_data = <<>>
    THEN Raise(ValueError("process_healthkit_heart_rate",
                          "No heart rate data provided", NoArgs))
    ELSE Return(sort_values(validate_heart_rate_data(ToFrame(heart_rate_data))))

process_healthkit_hrv_data(hrv_data) ==
    IF hrv_data = <<>>
    THEN Raise(ValueError("process_healthkit_hrv_data",
                          "No HRV data provided", NoArgs))
    ELSE Return(sort_values(validate_hrv_data(ToFrame(hrv_data))))

(***************************************************************************)
(* pNN50 estimators, in thousandths.                                       *)
(***************************************************************************)
\* min(0.6, max(0.0, (rmssd_value / 150) ** 1.5)); rmssd_value in hundredths
estimate_pnn50_from_rmssd(rmssd_value) ==
    LET q    == (rmssd_value * 10) \div 150
        root == Isqrt(q * 1000)
    IN Min2(600, Max2(0, (q * root) \div 1000))

\* min(0.4, max(0.0, hr_std / 50)); max(0.0, nan) is 0.0
estimate_pnn50_from_hr_std(hr_std) ==
    IF hr_std = NaN THEN 0
    ELSE Min2(400, Max2(0, (hr_std * 10) \div 50))

(***************************************************************************)
(* Data quality score, in tenths.                                          *)
(***************************************************************************)
\* hr_df['value'].std() / hr_df['value'].mean(), in thousandths
CoefficientOfVariation(vals) == (SeriesStd(vals) * 1000) \div SeriesMean(vals)

\* the sample-size block with its two weights exchanged
SampleSizeScore_weights_exchanged(n) ==
    IF n >= GoodSampleSize THEN 2
    ELSE IF n >= AcceptableSampleSize THEN 4 ELSE 0

SampleSizeScore(n) ==
    IF n >= GoodSampleSize THEN 4
    ELSE IF n >= AcceptableSampleSize THEN 2 ELSE 0

AvailabilityScore(m) ==
    IF m >= GoodHRVCount THEN 3 ELSE IF m >= 1 THEN 1 ELSE 0

\* the consistency block with a penalty for unstable readings
ConsistencyScore_penalty(vals) ==
    IF Len(vals) > 1
    THEN LET cv == CoefficientOfVariation(vals)
         IN IF cv < 300 THEN 3 ELSE IF cv < 500 THEN 1 ELSE -1
    ELSE 0

ConsistencyScore(vals) ==
    IF Len(vals) > 1
    THEN LET cv == CoefficientOfVariation(vals)
         IN IF cv < 300 THEN 3 ELSE IF cv < 500 THEN 1 ELSE 0
    ELSE 0

\* The float sums of these contributions are the exact tenths or one ulp off
\* them (0.2 + 0.1 is 0.30000000000000004); 0.4 + 0.3 + 0.3 is exactly 1.0 and
\* no sum crosses 0.5.

\* _calculate_data_quality_score with the sample-size branches swapped
calculate_data_quality_score_swapped(hr_df, hrv_df) ==
    Min2(10, (IF Len(hr_df) >= AcceptableSampleSize THEN 2
              ELSE IF Len(hr_df) >= GoodSampleSize THEN 4 ELSE 0)
             + AvailabilityScore(Len(hrv_df))
             + ConsistencyScore(Column(hr_df, "value")))

\* _calculate_data_quality_score counting the RMSSD samples alone
calculate_data_quality_score_rmssd_only(hr_df, hrv_df) ==
    Min2(10, SampleSizeScore(Len(hr_df))
             + AvailabilityScore(Len(SelectSeq(hrv_df, LAMBDA r : r.type = "RMSSD")))
             + ConsistencyScore(Column(hr_df, "value")))

calculate_data_quality_score(hr_df, hrv_df) ==
    Min2(10, SampleSizeScore(Len(hr_df)) + AvailabilityScore(Len(hrv_df))
             + ConsistencyScore(Column(hr_df, "value")))


(***************************************************************************)
(* Feature extraction.                                                     *)
(***************************************************************************)
\* the latest timestamp taken from the heart rate series alone
LatestTime_hr_only(heart_rate_df, hrv_df) ==
    SeriesMax(Column(heart_rate_df, "startDate"))

\* max(heart_rate_df['startDate'].max(), hrv_df['startDate'].max())
LatestTime(heart_rate_df, hrv_df) ==
    PyMax(SeriesMax(Column(heart_rate_df, "startDate")),
          SeriesMax(Column(hrv_df, "startDate")))

\* latest_time - timedelta(hours=time_window_hours); NaT stays NaT
StartTime(latest, time_window_hours) ==
    IF latest = NaT THEN NaT ELSE latest - timedelta_hours(time_window_hours)

\* the window with its lower end open
Window_open_start(df, start, latest) ==
    IF latest = NaT THEN <<>>
    ELSE SelectSeq(df, LAMBDA r : r.startDate > start /\ r.startDate <= latest)

\* df[(df['startDate'] >= start_time) & (df['startDate'] <= latest_time)]
Window(df, start, latest) ==
    IF latest = NaT THEN <<>>
    ELSE SelectSeq(df, LAMBDA r : r.startDate >= start /\ r.startDate <= latest)

\* the minimum-count test off by one
InsufficientData_off_by_one(hr_window) == Len(hr_window) < MinSamples - 1

\* the minimum-count test rejecting a window of exactly the minimum
InsufficientData_at_minimum(hr_window) == Len(hr_window) <= MinSamples

\* len(hr_window) < 10
InsufficientData(hr_window) == Len(hr_window) < MinSamples

\* hrv_window[hrv_window['type'] == 'RMSSD']
RmssdData(hrv_window) == SelectSeq(hrv_window, LAMBDA r : r.type = "RMSSD")

\* the pNN50 branch taken whenever any HRV sample is in the window
Pnn50_any_kind(hr_window, hrv_window) ==
    IF Len(hrv_window) > 0
    THEN estimate_pnn50_from_rmssd(SeriesMean(Column(hrv_window, "value")))
    ELSE estimate_pnn50_from_hr_std(SeriesStd(Column(hr_window, "value")))

\* the pNN50 branch of extract_features
Pnn50(hr_window, hrv_window) ==
    LET rmssd_data == RmssdData(hrv_window)
    IN IF Len(rmssd_data) > 0
       THEN estimate_pnn50_from_rmssd(SeriesMean(Column(rmssd_data, "value")))
       ELSE estimate_pnn50_from_hr_std(SeriesStd(Column(hr_window, "value")))

FeatureRow(latest, hr_window, hrv_window) ==
    [timestamp          |-> latest,
     mean_heart_rate    |-> SeriesMean(Column(hr_window, "value")),
     std_heart_rate     |-> SeriesStd(Column(hr_window, "value")),
     pnn50              |-> Pnn50(hr_window, hrv_window),
     data_quality_score |-> calculate_data_quality_score(hr_window, hrv_window),
     sample_count_hr    |-> Len(hr_window),
     sample_count_hrv   |-> Len(hrv_window)]

extract_features(heart_rate_df, hrv_df, time_window_hours) ==
    LET latest_t   == LatestTime(heart_rate_df, hrv_df)
        start_t    == StartTime(latest_t, time_window_hours)
        hr_w       == Window(heart_rate_df, start_t, latest_t)
        hrv_w      == Window(hrv_df, start_t, latest_t)
    IN IF InsufficientData(hr_w)
       THEN Raise(ValueError("extract_features",
                             "Insufficient heart rate data in window",
                             [hours |-> time_window_hours, samples |-> Len(hr_w)]))
       ELSE \* the two windows are taken once, the row is built from them
            CHOOSE features \in
                {Return(<<FeatureRow(w.latest, w.hr, w.hrv)>>) :
                    w \in {[latest |-> latest_t, hr |-> hr_w, hrv |-> hrv_w]}} : TRUE


(***************************************************************************)
(* The loaded predictor: a soft-voting pipeline, fixed once trained.       *)
(* A predictor is the record of its fitted parameters; every probability   *)
(* is in thousandths.                                                      *)
(***************************************************************************)
Predictors == {[bias |-> b] : b \in {0, 241, 525}}

\* another predictor the repository trains and saves: the HRV pattern
\* pipeline, fitted on 13 features and four classes
PatternPredictor == [n_features_in |-> 13, classes |-> 4]

Clamp(lo, x, hi) == Min2(hi, Max2(lo, x))

HasNaN(X) == \E i \in 1..Len(X) : X[i] = NaN

\* model_pipeline.predict_proba(X)[0]: <<P(class 0), P(class 1)>>
predict_proba(model, X) ==
    LET irregular == Clamp(0, model.bias + X[2] \div 10
                              + Max2(0, X[1] - 10000) \div 10 - X[3] \div 4, 1000)
    IN <<1000 - irregular, irregular>>

\* predict with a decision rule of its own, as a single SVC has
predict_own_decision_rule(model, X) ==
    LET p == predict_proba(model, X) IN IF p[2] > 400 THEN 1 ELSE 0

\* model_pipeline.predict(X)[0]: argmax of the averaged probabilities, the
\* first class on a tie
predict(model, X) ==
    LET p == predict_proba(model, X) IN IF p[2] > p[1] THEN 1 ELSE 0

\* the confidence taken from the irregular column alone
Confidence_of_irregular(probabilities) == probabilities[2]

\* np.maximum(probabilities[:, 0], probabilities[:, 1])
Confidence(probabilities) == Max2(probabilities[1], probabilities[2])

predict_rhythm(model_pipeline, features_df) ==
    IF model_pipeline = None
    THEN Raise(ValueError("predict_rhythm", "Model not loaded", NoArgs))
    ELSE LET row == features_df[1]
             X   == <<row.mean_heart_rate, row.std_heart_rate, row.pnn50>>
         IN IF model_pipeline \notin Predictors
            THEN \* the scaler of the pipeline checks the number of features
                 Raise(ValueError("predict", "X has 3 features, but StandardScaler is expecting 13 features as input",
                                  [expected |-> model_pipeline.n_features_in]))
            ELSE IF HasNaN(X)
            THEN Raise(ValueError("predict", "Input contains NaN", NoArgs))
            ELSE LET prediction    == predict(model_pipeline, X)
                     probabilities == predict_proba(model_pipeline, X)
                 IN Return(<<[timestamp |-> row.timestamp,
                              mean_heart_rate |-> row.mean_heart_rate,
                              std_heart_rate |-> row.std_heart_rate,
                              pnn50 |-> row.pnn50,
                              data_quality_score |-> row.data_quality_score,
                              sample_count_hr |-> row.sample_count_hr,
                              sample_count_hrv |-> row.sample_count_hrv,
                              prediction |-> prediction,
                              normal_probability |-> probabilities[1],
                              irregular_probability |-> probabilities[2],
                              confidence |-> Confidence(probabilities),
                              rhythm_classification |->
                                  IF prediction = 0 THEN "Normal" ELSE "Irregular"]>>)

\* the processor object, as far as the pipeline stages can see it
Self(model, meta) == [model_pipeline |-> model, metadata |-> meta]

\* predict_rhythm writing its columns into the frame it was given
predict_rhythm_effect_in_place(self, features_df) ==
    LET r == predict_rhythm(self.model_pipeline, features_df)
    IN [self |-> self,
        features_df |-> IF r.ok THEN r.value ELSE features_df]

\* predict_rhythm refitting the predictor on the vectors it sees
predict_rhythm_effect_refit(self, features_df) ==
    [self |-> Self(IF self.model_pipeline \in Predictors
                   THEN [bias |-> IF self.model_pipeline.bias = 525 THEN 0 ELSE 525]
                   ELSE self.model_pipeline,
                   self.metadata),
     features_df |-> features_df]

\* what a call of predict_rhythm leaves in the processor and in the frame it
\* was given: predict and predict_proba only read the fitted predictor, X is
\* a selection of the frame, and the new columns are set on a copy
predict_rhythm_effect(self, features_df) ==
    [self |-> self, features_df |-> features_df]

(***************************************************************************)
(* Reporting.                                                              *)
(***************************************************************************)
\* f"{mean_hr:.0f}": hundredths to the nearest integer, ties to even
FormatBpm(mean_hr) ==
    LET q == mean_hr \div 100
        r == mean_hr % 100
    IN IF r > 50 \/ (r = 50 /\ q % 2 = 1) THEN q + 1 ELSE q

HighConfidence == 800
LowConfidence == 700
PoorQuality == 5

\* _generate_clinical_interpretation without its two else branches
generate_clinical_interpretation_no_else(result) ==
    IF result.confidence > HighConfidence
    THEN IF result.rhythm_classification = "Normal"
         THEN [template |-> "High confidence normal rhythm detected. Heart rate {} BPM within normal range.",
               bpm |-> FormatBpm(result.mean_heart_rate)]
         ELSE [template |-> "High confidence irregular rhythm detected. Heart rate {} BPM. Recommend medical evaluation.",
               bpm |-> FormatBpm(result.mean_heart_rate)]
    ELSE None

\* _generate_clinical_interpretation with >= in place of >
generate_clinical_interpretation_inclusive(result) ==
    LET bpm == FormatBpm(result.mean_heart_rate)
    IN IF result.rhythm_classification = "Normal"
       THEN IF result.confidence >= HighConfidence
            THEN [template |-> "High confidence normal rhythm detected. Heart rate {} BPM within normal range.",
                  bpm |-> bpm]
            ELSE [template |-> "Likely normal rhythm, but consider additional monitoring. Heart rate {} BPM.",
                  bpm |-> bpm]
       ELSE IF result.confidence >= HighConfidence
            THEN [template |-> "High confidence irregular rhythm detected. Heart rate {} BPM. Recommend medical evaluation.",
                  bpm |-> bpm]
            ELSE [template |-> "Possible irregular rhythm detected. Heart rate {} BPM. Consider further assessment.",
                  bpm |-> bpm]

generate_clinical_interpretation(result) ==
    LET bpm == FormatBpm(result.mean_heart_rate)
    IN IF result.rhythm_classification = "Normal"
       THEN IF result.confidence > HighConfidence
            THEN [template |-> "High confidence normal rhythm detected. Heart rate {} BPM within normal range.",
                  bpm |-> bpm]
            ELSE [template |-> "Likely normal rhythm, but consider additional monitoring. Heart rate {} BPM.",
                  bpm |-> bpm]
       ELSE IF result.confidence > HighConfidence
            THEN [template |-> "High confidence irregular rhythm detected. Heart rate {} BPM. Recommend medical evaluation.",
                  bpm |-> bpm]
            ELSE [template |-> "Possible irregular rhythm detected. Heart rate {} BPM. Consider further assessment.",
                  bpm |-> bpm]

\* _generate_recommendations with the ECG request outside the rhythm test
generate_recommendations_ecg_unnested(result) ==
    (IF result.rhythm_classification = "Irregular"
     THEN <<"Consult with a healthcare provider about irregular rhythm detection",
            "Continue regular monitoring with Apple Watch">>
     ELSE <<>>)
    \o (IF result.confidence < LowConfidence
        THEN <<"Consider additional ECG recordings for confirmation">>
        ELSE <<>>)
    \o (IF result.data_quality_score < PoorQuality
        THEN <<"Improve data quality by ensuring proper Apple Watch fit",
               "Take readings during rest periods for better accuracy">>
        ELSE <<>>)
    \o <<"Maintain regular physical activity as recommended by your doctor",
         "Continue monitoring trends over time">>

generate_recommendations(result) ==
    (IF result.rhythm_classification = "Irregular"
     THEN <<"Consult with a healthcare provider about irregular rhythm detection",
            "Continue regular monitoring with Apple Watch">>
          \o (IF result.confidence < LowConfidence
              THEN <<"Consider additional ECG recordings for confirmation">>
              ELSE <<>>)
     ELSE <<>>)
    \o (IF result.data_quality_score < PoorQuality
        THEN <<"Improve data quality by ensuring proper Apple Watch fit",
               "Take readings during rest periods for better accuracy">>
        ELSE <<>>)
    \o <<"Maintain regular physical activity as recommended by your doctor",
         "Continue monitoring trends over time">>

\* generate_health_report scoring the data again, from the two counts alone
generate_health_report_rescored(results_df) ==
    LET latest_result == results_df[Len(results_df)]
    IN [timestamp |-> isoformat(latest_result.timestamp),
        rhythm_classification |-> latest_result.rhythm_classification,
        confidence_score |-> latest_result.confidence,
        irregular_probability |-> latest_result.irregular_probability,
        heart_rate_metrics |->
            [mean_heart_rate |-> latest_result.mean_heart_rate,
             heart_rate_variability |-> latest_result.std_heart_rate,
             pnn50 |-> latest_result.pnn50],
        data_quality |->
            [quality_score |-> SampleSizeScore(latest_result.sample_count_hr)
                               + AvailabilityScore(latest_result.sample_count_hrv),
             heart_rate_samples |-> latest_result.sample_count_hr,
             hrv_samples |-> latest_result.sample_count_hrv],
        clinical_interpretation |-> generate_clinical_interpretation(latest_result),
        recommendations |-> generate_recommendations(latest_result)]

generate_health_report(results_df) ==
    LET latest_result == results_df[Len(results_df)]
    IN [timestamp |-> isoformat(latest_result.timestamp),
        rhythm_classification |-> latest_result.rhythm_classification,
        confidence_score |-> latest_result.confidence,
        irregular_probability |-> latest_result.irregular_probability,
        heart_rate_metrics |->
            [mean_heart_rate |-> latest_result.mean_heart_rate,
             heart_rate_variability |-> latest_result.std_heart_rate,
             pnn50 |-> latest_result.pnn50],
        data_quality |->
            [quality_score |-> latest_result.data_quality_score,
             heart_rate_samples |-> latest_result.sample_count_hr,
             hrv_samples |-> latest_result.sample_count_hrv],
        clinical_interpretation |-> generate_clinical_interpretation(latest_result),
        recommendations |-> generate_recommendations(latest_result)]


(***************************************************************************)
(* Inputs of a run: the two sample lists the caller supplies.  A list is a *)
(* block of samples one minute (five minutes) apart, newest first, followed*)
(* by different free samples at the edges of the window and of the valid   *)
(* ranges.                                                                 *)
(***************************************************************************)
BlockEnd == to_datetime(<<4, 0>>)

HRSample(t, v) ==
    [startDate |-> isoformat(t), endDate |-> isoformat(t + 1),
     value |-> v, unit |-> "count/min"]

HRVSample(t, v, kind) ==
    [startDate |-> isoformat(t), endDate |-> isoformat(t + 5),
     value |-> v, unit |-> "ms", type |-> kind]

HRBlock(n, lo, hi) ==
    [i \in 1..n |-> HRSample(BlockEnd - (i - 1), IF i % 2 = 1 THEN lo ELSE hi)]

HRVBlock(n, kind) == [i \in 1..n |-> HRVSample(BlockEnd - 5 * (i - 1), 45, kind)]

HRBlocks ==
    {HRBlock(n, p[1], p[2]) :
        n \in {0, MinSamples - 1, MinSamples},
        p \in {<<72, 72>>, <<40, 100>>, <<HRMin, HRMax>>}}

HRVBlocks == {<<>>} \cup {HRVBlock(GoodHRVCount, k) : k \in {"RMSSD", "SDNN"}}

HRExtras ==
    {HRSample(t, 72) : t \in {BlockEnd - 61, BlockEnd - 60, BlockEnd + 1}}
    \cup {HRSample(BlockEnd, v) : v \in {HRMin - 1, HRMin, HRMax, HRMax + 1}}

HRVExtras ==
    {HRVSample(BlockEnd + 60, 45, "RMSSD")}
    \cup {HRVSample(BlockEnd, v, "SDNN") : v \in {HRVMin - 1, HRVMin, HRVMax, HRVMax + 1}}

\* the samples of S, one after the other in a fixed order
RECURSIVE ListOf(_)
ListOf(S) ==
    IF S = {} THEN <<>>
    ELSE LET x == CHOOSE y \in S : TRUE IN <<x>> \o ListOf(S \ {x})

\* the lists of k different samples of S
ListsOfSize(S, k) == {ListOf(T) : T \in {U \in SUBSET S : Cardinality(U) = k}}

\* the window lengths the caller passes: one hour, and the driver's two
WindowHours == {1, 2}

\* what the files on disk hold when the processor is constructed
Missing == [missing |-> TRUE]
ModelFiles == Predictors \cup {PatternPredictor, Missing}
MetadataFiles == {"missing", "with_auc", "without_auc"}

(***************************************************************************)
(* State.                                                                  *)
(***************************************************************************)
VARIABLES
    pc,                \* position of process_sample_healthkit_data
    heart_rate_data,   \* the caller's heart rate samples
    hrv_data,          \* the caller's HRV samples
    time_window_hours, \* the window length passed to extract_features
    model_pipeline,    \* self.model_pipeline
    metadata,          \* self.metadata
    hr_df,             \* result of process_healthkit_heart_rate
    hrv_df,            \* result of process_healthkit_hrv_data
    latest_time,       \* extract_features' latest_time
    start_time,        \* extract_features' start_time
    hr_window,         \* extract_features' hr_window
    hrv_window,        \* extract_features' hrv_window
    features_df,       \* result of extract_features
    results_df,        \* result of predict_rhythm
    health_report,     \* result of generate_health_report
    error,             \* the exception the driver caught
    predict_calls,     \* calls of model_pipeline.predict / predict_proba
    quality,           \* result of a call of _calculate_data_quality_score
    runs               \* the locals of the pipeline runs that share the processor

vars == <<pc, heart_rate_data, hrv_data, time_window_hours, model_pipeline,
          metadata, hr_df, hrv_df, latest_time, start_time, hr_window,
          hrv_window, features_df, results_df, health_report, error,
          predict_calls, quality, runs>>

inputs == <<heart_rate_data, hrv_data, time_window_hours>>
processor == <<model_pipeline, metadata>>
frames == <<hr_df, hrv_df>>
window == <<latest_time, start_time, hr_window, hrv_window>>

Init ==
    /\ pc = "start"
    /\ \E kh \in 0..MaxExtra : \E kv \in 0..(MaxExtra - kh) :
          /\ \E b \in HRBlocks : \E x \in ListsOfSize(HRExtras, kh) :
                heart_rate_data = b \o x
          /\ \E b \in HRVBlocks : \E x \in ListsOfSize(HRVExtras, kv) :
                hrv_data = b \o x
    /\ time_window_hours \in WindowHours
    /\ model_pipeline = None
    /\ metadata = None
    /\ hr_df = NoFrame
    /\ hrv_df = NoFrame
    /\ latest_time = NaT
    /\ start_time = NaT
    /\ hr_window = NoFrame
    /\ hrv_window = NoFrame
    /\ features_df = NoFrame
    /\ results_df = NoFrame
    /\ health_report = None
    /\ error = None
    /\ predict_calls = 0
    /\ quality = NaN
    /\ runs = <<>>

(***************************************************************************)
(* The driver, one action per call it makes.                               *)
(***************************************************************************)
\* HealthKitDataProcessor(): __init__ and load_model
Construct ==
    /\ pc = "start"
    /\ \E model_file \in ModelFiles : \E metadata_file \in MetadataFiles :
          IF model_file = Missing
          THEN /\ pc' = "error"
               /\ error' = [type |-> "FileNotFoundError", raised_by |-> "load_model",
                            msg |-> "Model file not found", args |-> NoArgs]
               /\ UNCHANGED processor
          ELSE IF metadata_file = "without_auc"
          THEN \* f"{'N/A':.3f}" raises ValueError out of both try blocks
               /\ pc' = "error"
               /\ error' = ValueError("load_model", "Unknown format code 'f'", NoArgs)
               /\ UNCHANGED processor
          ELSE /\ pc' = "constructed"
               /\ model_pipeline' = model_file
               /\ metadata' = IF metadata_file = "missing" THEN None
                              ELSE [auc_score |-> 900]
               /\ UNCHANGED error
    /\ UNCHANGED <<runs, inputs, frames, window, features_df, results_df,
                   health_report, predict_calls, quality>>

ProcessHeartRate ==
    /\ pc = "constructed"
    /\ LET r == process_healthkit_heart_rate(heart_rate_data)
       IN IF r.ok
          THEN /\ pc' = "hr_done"
               /\ hr_df' = r.value
               /\ UNCHANGED error
          ELSE /\ pc' = "error"
               /\ error' = r.error
               /\ UNCHANGED hr_df
    /\ UNCHANGED <<runs, inputs, processor, hrv_df, window, features_df, results_df,
                   health_report, predict_calls, quality>>

ProcessHRV ==
    /\ pc = "hr_done"
    /\ LET r == process_healthkit_hrv_data(hrv_data)
       IN IF r.ok
          THEN /\ pc' = "hrv_done"
               /\ hrv_df' = r.value
               /\ UNCHANGED error
          ELSE /\ pc' = "error"
               /\ error' = r.error
               /\ UNCHANGED hrv_df
    /\ UNCHANGED <<runs, inputs, processor, hr_df, window, features_df, results_df,
                   health_report, predict_calls, quality>>

\* extract_features dropping the loaded predictor when it raises
ExtractFeatures_unloads ==
    /\ pc = "hrv_done"
    /\ LET r == extract_features(hr_df, hrv_df, time_window_hours)
           latest_t == LatestTime(hr_df, hrv_df)
           start_t  == StartTime(latest_t, time_window_hours)
       IN /\ latest_time' = latest_t
          /\ start_time' = start_t
          /\ hr_window' = Window(hr_df, start_t, latest_t)
          /\ hrv_window' = Window(hrv_df, start_t, latest_t)
          /\ IF r.ok
             THEN /\ pc' = "features"
                  /\ features_df' = r.value
                  /\ UNCHANGED <<error, processor>>
             ELSE /\ pc' = "error"
                  /\ error' = r.error
                  /\ model_pipeline' = None
                  /\ UNCHANGED <<features_df, metadata>>
    /\ UNCHANGED <<runs, inputs, frames, results_df, health_report,
                   predict_calls, quality>>

ExtractFeatures ==
    /\ pc = "hrv_done"
    /\ LET r == extract_features(hr_df, hrv_df, time_window_hours)
           latest_t == LatestTime(hr_df, hrv_df)
           start_t  == StartTime(latest_t, time_window_hours)
       IN /\ latest_time' = latest_t
          /\ start_time' = start_t
          /\ hr_window' = Window(hr_df, start_t, latest_t)
          /\ hrv_window' = Window(hrv_df, start_t, latest_t)
          /\ IF r.ok
             THEN /\ pc' = "features"
                  /\ features_df' = r.value
                  /\ UNCHANGED error
             ELSE /\ pc' = "error"
                  /\ error' = r.error
                  /\ UNCHANGED features_df
    /\ UNCHANGED <<runs, inputs, processor, frames, results_df, health_report,
                   predict_calls, quality>>

PredictRhythm ==
    /\ pc = "features"
    /\ LET r == predict_rhythm(model_pipeline, features_df)
       IN IF r.ok
          THEN /\ pc' = "predicted"
               /\ results_df' = r.value
               /\ predict_calls' = predict_calls + 2
               /\ UNCHANGED error
          ELSE /\ pc' = "error"
               /\ error' = r.error
               /\ predict_calls' =
                     IF r.error.raised_by = "predict" THEN predict_calls + 1
                     ELSE predict_calls
               /\ UNCHANGED results_df
    /\ LET after == predict_rhythm_effect(Self(model_pipeline, metadata), features_df)
       IN /\ model_pipeline' = after.self.model_pipeline
          /\ metadata' = after.self.metadata
          /\ features_df' = after.features_df
    /\ UNCHANGED <<runs, inputs, frames, window, health_report, quality>>

\* the driver waiting, before the report, for something that never comes
GenerateReport_waits ==
    /\ pc = "predicted"
    /\ UNCHANGED vars

GenerateReport ==
    /\ pc = "predicted"
    /\ pc' = "done"
    /\ health_report' = generate_health_report(results_df)
    /\ UNCHANGED <<runs, inputs, processor, frames, window, features_df, results_df,
                   error, predict_calls, quality>>

Next ==
    \/ Construct
    \/ ProcessHeartRate
    \/ ProcessHRV
    \/ ExtractFeatures
    \/ PredictRhythm
    \/ GenerateReport

Spec == Init /\ [][Next]_vars

\* The driver on lists without free samples.  It is straight-line code: the
\* call after a returned call is made.
InitFair ==
    /\ Init
    /\ heart_rate_data \in HRBlocks
    /\ hrv_data \in HRVBlocks

SpecFair == InitFair /\ [][Next]_vars /\ WF_vars(Next)

\* The pipeline started again on the same processor after one of its calls
\* raised: of the failed run the caller keeps the error it caught, and the
\* processor is the one the failed call was made on.
FailingCalls ==
    {"process_healthkit_heart_rate", "process_healthkit_hrv_data",
     "extract_features"}

\* the heart rate lists of a run that follows: empty, one short, enough
RetryHRBlocks == {HRBlock(n, 40, 100) : n \in {0, MinSamples - 1, MinSamples}}

RunAgain ==
    /\ pc = "error"
    /\ error.raised_by \in FailingCalls
    /\ Len(runs) < MaxRuns
    /\ runs' = Append(runs, [pc |-> "error", error |-> error])
    /\ pc' = "constructed"
    /\ heart_rate_data' \in RetryHRBlocks
    /\ hrv_data' \in HRVBlocks
    /\ time_window_hours' \in WindowHours
    /\ hr_df' = NoFrame
    /\ hrv_df' = NoFrame
    /\ latest_time' = NaT
    /\ start_time' = NaT
    /\ hr_window' = NoFrame
    /\ hrv_window' = NoFrame
    /\ features_df' = NoFrame
    /\ results_df' = NoFrame
    /\ health_report' = None
    /\ error' = None
    /\ UNCHANGED <<processor, predict_calls, quality>>

NextRetry ==
    \/ Next
    \/ RunAgain

SpecRetry == InitFair /\ [][NextRetry]_vars


(***************************************************************************)
(* The quality scorer called on its own, on any pair of validated windows. *)
(***************************************************************************)
WindowCounts ==
    {0, 1, 2, AcceptableSampleSize - 1, AcceptableSampleSize,
     GoodSampleSize - 1, GoodSampleSize, MaxWindowSamples}

WindowValues == {HRMin, 40, 60, 68, 100, HRMax}

\* n validated heart rate rows, oldest first, alternating between lo and hi
HRWindow(n, lo, hi) ==
    ToFrame([i \in 1..n |->
        HRSample(BlockEnd - (n - i), IF i % 2 = 1 THEN lo ELSE hi)])

\* m validated HRV rows of one kind, oldest first
HRVWindow(m, kind) ==
    ToFrame([i \in 1..m |-> HRVSample(BlockEnd - 5 * (m - i), 45, kind)])

InitScore ==
    /\ pc = "score_call"
    /\ \E n \in WindowCounts : \E lo \in WindowValues : \E hi \in WindowValues :
          /\ lo <= hi
          /\ hr_window = HRWindow(n, lo, hi)
    /\ \E m \in {0, 1, GoodHRVCount - 1, GoodHRVCount, GoodHRVCount + 1} :
       \E kind \in {"RMSSD", "SDNN"} :
          hrv_window = HRVWindow(m, kind)
    /\ heart_rate_data = <<>>
    /\ hrv_data = <<>>
    /\ time_window_hours = 1
    /\ model_pipeline = None
    /\ metadata = None
    /\ hr_df = NoFrame
    /\ hrv_df = NoFrame
    /\ latest_time = NaT
    /\ start_time = NaT
    /\ features_df = NoFrame
    /\ results_df = NoFrame
    /\ health_report = None
    /\ error = None
    /\ predict_calls = 0
    /\ quality = NaN
    /\ runs = <<>>

CalculateDataQualityScore ==
    /\ pc = "score_call"
    /\ pc' = "score_done"
    /\ quality' = calculate_data_quality_score(hr_window, hrv_window)
    /\ UNCHANGED <<runs, inputs, processor, frames, window, features_df, results_df,
                   health_report, error, predict_calls>>

NextScore == CalculateDataQualityScore

SpecScore == InitScore /\ [][NextScore]_vars


(***************************************************************************)
(* Several pipeline runs on one constructed processor.  Each run has its   *)
(* own validated frames and goes through extract_features, predict_rhythm  *)
(* and generate_health_report; the runs take their stages in any order.    *)
(***************************************************************************)
RunInputs ==
    {[heart_rate_df |-> HRWindow(n, p[1], p[2]),
      hrv_df |-> HRVWindow(m[1], m[2]),
      time_window_hours |-> 1] :
        n \in {MinSamples - 1, MinSamples},
        p \in {<<72, 72>>, <<40, 100>>},
        m \in {<<GoodHRVCount, "RMSSD">>, <<1, "SDNN">>}}

NewRun(in) ==
    [pc |-> "windowed",
     heart_rate_df |-> in.heart_rate_df,
     hrv_df |-> in.hrv_df,
     time_window_hours |-> in.time_window_hours,
     features_df |-> NoFrame,
     results_df |-> NoFrame,
     health_report |-> None,
     error |-> None]

InitRuns ==
    /\ pc = "runs"
    /\ model_pipeline \in Predictors \cup {PatternPredictor}
    /\ metadata \in {None, [auc_score |-> 900]}
    /\ runs \in [1..MaxRuns -> {NewRun(in) : in \in RunInputs}]
    /\ heart_rate_data = <<>>
    /\ hrv_data = <<>>
    /\ time_window_hours = 1
    /\ hr_df = NoFrame
    /\ hrv_df = NoFrame
    /\ latest_time = NaT
    /\ start_time = NaT
    /\ hr_window = NoFrame
    /\ hrv_window = NoFrame
    /\ features_df = NoFrame
    /\ results_df = NoFrame
    /\ health_report = None
    /\ error = None
    /\ predict_calls = 0
    /\ quality = NaN

RunExtractFeatures(r) ==
    /\ runs[r].pc = "windowed"
    /\ LET run == runs[r]
           res == extract_features(run.heart_rate_df, run.hrv_df,
                                   run.time_window_hours)
       IN runs' = [runs EXCEPT ![r] =
                      IF res.ok
                      THEN [run EXCEPT !.pc = "features", !.features_df = res.value]
                      ELSE [run EXCEPT !.pc = "error", !.error = res.error]]
    /\ UNCHANGED <<pc, inputs, processor, frames, window, features_df,
                   results_df, health_report, error, predict_calls, quality>>

RunPredictRhythm(r) ==
    /\ runs[r].pc = "features"
    /\ LET run   == runs[r]
           res   == predict_rhythm(model_pipeline, run.features_df)
           after == predict_rhythm_effect(Self(model_pipeline, metadata),
                                          run.features_df)
       IN /\ runs' = [runs EXCEPT ![r] =
                         IF res.ok
                         THEN [run EXCEPT !.pc = "predicted",
                                          !.features_df = after.features_df,
                                          !.results_df = res.value]
                         ELSE [run EXCEPT !.pc = "error",
                                          !.features_df = after.features_df,
                                          !.error = res.error]]
          /\ model_pipeline' = after.self.model_pipeline
          /\ metadata' = after.self.metadata
          /\ predict_calls' = IF res.ok THEN predict_calls + 2
                              ELSE IF res.error.raised_by = "predict"
                              THEN predict_calls + 1
                              ELSE predict_calls
    /\ UNCHANGED <<pc, inputs, frames, window, features_df, results_df,
                   health_report, error, quality>>

RunGenerateReport(r) ==
    /\ runs[r].pc = "predicted"
    /\ runs' = [runs EXCEPT ![r] =
                   [runs[r] EXCEPT !.pc = "done",
                                   !.health_report =
                                       generate_health_report(runs[r].results_df)]]
    /\ UNCHANGED <<pc, inputs, processor, frames, window, features_df,
                   results_df, health_report, error, predict_calls, quality>>

NextRuns ==
    \E r \in DOMAIN runs :
        \/ RunExtractFeatures(r)
        \/ RunPredictRhythm(r)
        \/ RunGenerateReport(r)

SpecRuns == InitRuns /\ [][NextRuns]_vars


(***************************************************************************)
(* Vocabulary of the properties.                                           *)
(***************************************************************************)
Terminal == pc \in {"done", "error"}

Constructed == model_pipeline # None

RaisedBy(fns) == pc = "error" /\ error.raised_by \in fns

\* process_healthkit_heart_rate has returned
HrDone ==
    /\ pc \notin {"start", "constructed", "score_call", "score_done"}
    /\ ~RaisedBy({"load_model", "process_healthkit_heart_rate"})

\* process_healthkit_hrv_data has returned
HrvDone == HrDone /\ pc # "hr_done" /\ ~RaisedBy({"process_healthkit_hrv_data"})

\* extract_features has computed its windows
ExtractDone == HrvDone /\ pc # "hrv_done"

\* the two error situations of the pipeline, as the code words them
EmptyInputError(e) ==
    e.msg \in {"No heart rate data provided", "No HRV data provided"}

InsufficientDataError(e) ==
    e.raised_by = "extract_features"
    /\ e.msg = "Insufficient heart rate data in window"

Rows(df) == {df[i] : i \in DOMAIN df}

Count(df, r) == Cardinality({i \in DOMAIN df : df[i] = r})

SetMax(S) == CHOOSE t \in S : \A u \in S : u <= t

\* the start times, in minutes, of the supplied samples inside [lo, hi]
ValidStarts(data, lo, hi) ==
    {to_datetime(data[i].startDate) :
        i \in {j \in DOMAIN data : data[j].value >= lo /\ data[j].value <= hi}}

\* how many supplied heart rate samples are valid and lie in the window that
\* ends at the newest valid sample of either list
PrimaryLeft ==
    LET hrStarts  == ValidStarts(heart_rate_data, HRMin, HRMax)
        hrvStarts == ValidStarts(hrv_data, HRVMin, HRVMax)
    IN IF hrStarts = {} THEN 0
       ELSE LET newest == SetMax(hrStarts \cup hrvStarts)
            IN Cardinality({i \in DOMAIN heart_rate_data :
                   /\ heart_rate_data[i].value >= HRMin
                   /\ heart_rate_data[i].value <= HRMax
                   /\ to_datetime(heart_rate_data[i].startDate)
                         >= newest - 60 * time_window_hours
                   /\ to_datetime(heart_rate_data[i].startDate) <= newest})

(***************************************************************************)
(* C1 as stated: whenever fewer than 10 heart rate samples are left after  *)
(* validation and windowing, the run ends with the insufficient-data error *)
(* of extract_features and the predictor is never called.                  *)
(***************************************************************************)
C1_AlwaysInsufficientData ==
    (Terminal /\ Constructed /\ PrimaryLeft < MinSamples)
        => /\ pc = "error"
           /\ InsufficientDataError(error)
           /\ predict_calls = 0

(***************************************************************************)
(* C1 amended: when both supplied lists are non-empty and fewer than 10    *)
(* heart rate samples are left after validation and windowing, the         *)
(* predictor is never called, the run never gets past extract_features,    *)
(* and it ends with the insufficient-data error of extract_features.       *)
(***************************************************************************)
C1_InsufficientDataWhenBothSupplied ==
    (Constructed /\ heart_rate_data # <<>> /\ hrv_data # <<>>
        /\ PrimaryLeft < MinSamples)
        => /\ predict_calls = 0
           /\ pc \notin {"features", "predicted", "done"}
           /\ features_df = NoFrame
           /\ Terminal => (pc = "error" /\ InsufficientDataError(error))

C1_Witness ==
    /\ pc = "error"
    /\ InsufficientDataError(error)
    /\ Len(hr_window) = MinSamples - 1
    /\ Len(hr_df) >= MinSamples
    /\ predict_calls = 0

(***************************************************************************)
(* C2: every sample the validator returns lies in the closed plausibility  *)
(* interval of its kind, [30, 250] for heart rate and [1, 200] for HRV, and*)
(* the samples at the boundary values 30, 250, 1 and 200 are all kept.     *)
(***************************************************************************)
BoundaryKept(data, df, v) ==
    Cardinality({i \in DOMAIN data : data[i].value = v})
        = Cardinality({i \in DOMAIN df : df[i].value = v})

C2_ValidatorInterval ==
    /\ HrDone =>
          /\ \A i \in DOMAIN hr_df : hr_df[i].value >= 30 /\ hr_df[i].value <= 250
          /\ BoundaryKept(heart_rate_data, hr_df, 30)
          /\ BoundaryKept(heart_rate_data, hr_df, 250)
    /\ HrvDone =>
          /\ \A i \in DOMAIN hrv_df : hrv_df[i].value >= 1 /\ hrv_df[i].value <= 200
          /\ BoundaryKept(hrv_data, hrv_df, 1)
          /\ BoundaryKept(hrv_data, hrv_df, 200)

C2_Witness ==
    /\ HrvDone
    /\ \E i \in DOMAIN hr_df : hr_df[i].value = 30
    /\ \E i \in DOMAIN hr_df : hr_df[i].value = 250
    /\ \E i \in DOMAIN hrv_df : hrv_df[i].value = 1
    /\ \E i \in DOMAIN hrv_data : hrv_data[i].value = 0
    /\ Len(hrv_df) < Len(hrv_data)

(***************************************************************************)
(* C3: a validation stage fails with the empty-input error exactly when its*)
(* list is empty before filtering; a non-empty list whose samples are all  *)
(* filtered out gives an empty series and no error, and the run then fails *)
(* at the minimum-count check of extract_features.                         *)
(***************************************************************************)
AllFiltered(data, lo, hi) ==
    data # <<>> /\ \A i \in DOMAIN data : data[i].value < lo \/ data[i].value > hi

C3_EmptyInputOnlyWhenEmpty ==
    /\ RaisedBy({"process_healthkit_heart_rate"})
          <=> (Constructed /\ heart_rate_data = <<>> /\ pc # "constructed")
    /\ RaisedBy({"process_healthkit_hrv_data"})
          <=> (HrDone /\ hrv_data = <<>> /\ pc # "hr_done")
    /\ RaisedBy({"process_healthkit_heart_rate", "process_healthkit_hrv_data"})
          => EmptyInputError(error)
    /\ (HrDone /\ AllFiltered(heart_rate_data, HRMin, HRMax)) => hr_df = <<>>
    /\ (HrvDone /\ AllFiltered(hrv_data, HRVMin, HRVMax)) => hrv_df = <<>>
    /\ (ExtractDone /\ hr_df = <<>>)
          => (pc = "error" /\ InsufficientDataError(error))

C3_Witness ==
    /\ pc = "error"
    /\ InsufficientDataError(error)
    /\ heart_rate_data # <<>>
    /\ hr_df = <<>>
    /\ error.args.samples = 0

(***************************************************************************)
(* C4 as stated: the error for too few samples is of another kind than the *)
(* error for no samples at all, so the kind alone tells the two apart.     *)
(***************************************************************************)
EmptyInputKind == process_healthkit_heart_rate(<<>>).error.type

C4_DistinctErrorKinds ==
    (pc = "error" /\ InsufficientDataError(error)) => error.type # EmptyInputKind

(***************************************************************************)
(* C5: a run ends either with a report whose every field is populated and  *)
(* no error, or with an error and no report; before the end there is       *)
(* neither, and a report is never partially populated.                     *)
(***************************************************************************)
ReportComplete(r) ==
    /\ r.timestamp # isoformat(NaT)
    /\ r.rhythm_classification \in {"Normal", "Irregular"}
    /\ r.confidence_score # NaN
    /\ r.irregular_probability # NaN
    /\ r.heart_rate_metrics.mean_heart_rate # NaN
    /\ r.heart_rate_metrics.heart_rate_variability # NaN
    /\ r.heart_rate_metrics.pnn50 # NaN
    /\ r.data_quality.quality_score # NaN
    /\ r.data_quality.heart_rate_samples >= 0
    /\ r.data_quality.hrv_samples >= 0
    /\ r.clinical_interpretation # None
    /\ r.recommendations # <<>>

C5_CompleteReportOrError ==
    /\ pc = "done" =>
          /\ error = None
          /\ health_report # None
          /\ ReportComplete(health_report)
    /\ pc = "error" => (error # None /\ health_report = None)
    /\ ~Terminal => (error = None /\ health_report = None)

C5_Witness ==
    /\ pc = "done"
    /\ health_report.confidence_score <= HighConfidence
    /\ health_report.rhythm_classification = "Irregular"
    /\ Len(health_report.recommendations) > 2

(***************************************************************************)
(* C6 as stated: the insufficient-data error carries the observed count of *)
(* the primary window and the required minimum of 10.                      *)
(***************************************************************************)
C6_CarriesObservedAndRequired ==
    (pc = "error" /\ InsufficientDataError(error))
        => /\ "samples" \in DOMAIN error.args
           /\ error.args.samples = Len(hr_window)
           /\ "required" \in DOMAIN error.args
           /\ error.args.required = MinSamples


(***************************************************************************)
(* Windows as the properties describe them.                                *)
(***************************************************************************)
\* df's rows with startDate in [lo, hi], each as often as df holds it
ExactlyRowsBetween(win, df, lo, hi) ==
    /\ Rows(win) \subseteq Rows(df)
    /\ \A r \in Rows(df) :
          Count(win, r) = IF r.startDate >= lo /\ r.startDate <= hi
                          THEN Count(df, r) ELSE 0

(***************************************************************************)
(* C7 as stated: latest is the maximum endTime over all samples of both    *)
(* series, start is latest minus the window length, and each window is     *)
(* exactly the samples of its series with startTime in [start, latest].    *)
(***************************************************************************)
C7_LatestIsMaxEndTime ==
    (ExtractDone /\ hr_df # <<>>)
        => LET ends == {r.endDate : r \in Rows(hr_df) \cup Rows(hrv_df)}
               latest == SetMax(ends)
               start == latest - 60 * time_window_hours
           IN /\ latest_time = latest
              /\ start_time = start
              /\ ExactlyRowsBetween(hr_window, hr_df, start, latest)
              /\ ExactlyRowsBetween(hrv_window, hrv_df, start, latest)

(***************************************************************************)
(* C7 amended: latest is the maximum startTime over all samples of both    *)
(* series when the heart rate series is non-empty, start is latest minus   *)
(* the window length, and each window is exactly the samples of its series *)
(* with startTime in [start, latest]; when the heart rate series is empty  *)
(* there is no latest time and both windows are empty.                     *)
(***************************************************************************)
C7_LatestIsMaxStartTime ==
    ExtractDone
        => IF hr_df # <<>>
           THEN LET starts == {r.startDate : r \in Rows(hr_df) \cup Rows(hrv_df)}
                    latest == SetMax(starts)
                    start == latest - 60 * time_window_hours
                IN /\ latest_time = latest
                   /\ start_time = start
                   /\ ExactlyRowsBetween(hr_window, hr_df, start, latest)
                   /\ ExactlyRowsBetween(hrv_window, hrv_df, start, latest)
           ELSE /\ latest_time = NaT
                /\ start_time = NaT
                /\ hr_window = <<>>
                /\ hrv_window = <<>>

C7_Witness ==
    /\ ExtractDone
    /\ hr_window # <<>>
    /\ Len(hr_window) < Len(hr_df)
    /\ Len(hrv_window) < Len(hrv_df)
    /\ \A i \in DOMAIN hr_df : hr_df[i].startDate < latest_time

(***************************************************************************)
(* C8: the window is closed at both ends: a sample whose startTime equals  *)
(* start or equals latest is in the window of its series.                  *)
(***************************************************************************)
AtBoundary(r) ==
    latest_time # NaT /\ (r.startDate = start_time \/ r.startDate = latest_time)

C8_WindowInclusive ==
    ExtractDone
        => /\ \A r \in Rows(hr_df) :
                 AtBoundary(r) => Count(hr_window, r) = Count(hr_df, r)
           /\ \A r \in Rows(hrv_df) :
                 AtBoundary(r) => Count(hrv_window, r) = Count(hrv_df, r)

C8_Witness ==
    /\ ExtractDone
    /\ \E i \in DOMAIN hr_window : hr_window[i].startDate = start_time
    /\ \E i \in DOMAIN hr_window : hr_window[i].startDate = latest_time
    /\ \E i \in DOMAIN hr_df : hr_df[i].startDate < start_time

(***************************************************************************)
(* C9: the data quality score is the sum of three contributions, clamped to*)
(* 1.0: primary count (+0.4 from 50, +0.2 from 20), secondary count (+0.3  *)
(* from 5, +0.1 from 1) and stability cv = stddev/mean of the primary      *)
(* values (+0.3 below 0.3, +0.1 below 0.5); 60 primary samples at constant *)
(* 68 with at least 5 secondary samples score exactly 1.0.                 *)
(***************************************************************************)
ClaimedPrimary(n) == IF n >= 50 THEN 4 ELSE IF n >= 20 THEN 2 ELSE 0

ClaimedSecondary(m) == IF m >= 5 THEN 3 ELSE IF m >= 1 THEN 1 ELSE 0

\* a cv that is not a number (fewer than two values) is below no threshold
ClaimedStability(vals) ==
    LET sd == SeriesStd(vals)
        mn == SeriesMean(vals)
    IN IF sd = NaN \/ mn = NaN THEN 0
       ELSE IF sd * 1000 < 300 * mn THEN 3
       ELSE IF sd * 1000 < 500 * mn THEN 1 ELSE 0

ClaimedScore(hr, hrv) ==
    Min2(10, ClaimedPrimary(Len(hr)) + ClaimedSecondary(Len(hrv))
             + ClaimedStability(Column(hr, "value")))

ConstantAt68(hr) ==
    Len(hr) >= 60 /\ \A i \in DOMAIN hr : hr[i].value = 68

C9_ScoreIsSumOfContributions ==
    pc = "score_done"
        => /\ quality = ClaimedScore(hr_window, hrv_window)
           /\ (ConstantAt68(hr_window) /\ Len(hrv_window) >= 5) => quality = 10

C9_Witness ==
    /\ pc = "score_done"
    /\ Len(hr_window) = 60
    /\ ConstantAt68(hr_window)
    /\ Len(hrv_window) >= 5
    /\ quality = 10

(***************************************************************************)
(* C10: for every pair of windows, empty ones included, the data quality   *)
(* score lies in the closed interval [0, 1].                               *)
(***************************************************************************)
C10_ScoreInUnitInterval ==
    pc = "score_done" => (quality >= 0 /\ quality <= 10)

C10_Witness ==
    /\ pc = "score_done"
    /\ hr_window = <<>>
    /\ hrv_window = <<>>
    /\ quality = 0

(***************************************************************************)
(* C11: the data quality score is monotonic.  Against every other heart   *)
(* rate window of the input family, scored with the same HRV window: one   *)
(* with the same cv (or both without a cv) and at least as many samples    *)
(* never scores lower, and one with the same number of samples and a cv    *)
(* that is not higher never scores lower.                                  *)
(***************************************************************************)
\* stddev / mean of the values, in thousandths; not a number below two values
CvOf(hr) ==
    LET vals == Column(hr, "value")
    IN IF Len(vals) < 2 THEN NaN
       ELSE (SeriesStd(vals) * 1000) \div SeriesMean(vals)

OtherHRWindows ==
    {HRWindow(n, lo, hi) :
        n \in WindowCounts, lo \in WindowValues, hi \in WindowValues}

OtherCv == [other \in OtherHRWindows |-> CvOf(other)]

C11_ScoreMonotonic ==
    pc = "score_done"
        => LET cv == CvOf(hr_window)
           IN \A other \in OtherHRWindows :
                 /\ (OtherCv[other] = cv /\ Len(other) >= Len(hr_window))
                       => calculate_data_quality_score(other, hrv_window) >= quality
                 /\ (/\ Len(other) = Len(hr_window)
                     /\ cv # NaN
                     /\ OtherCv[other] <= cv)
                       => calculate_data_quality_score(other, hrv_window) >= quality

\* a scored window that a longer window of the same cv beats, and that beats
\* a less steady window of the same length
C11_Witness ==
    /\ pc = "score_done"
    /\ \E other \in OtherHRWindows :
          /\ OtherCv[other] = CvOf(hr_window)
          /\ Len(other) > Len(hr_window)
          /\ calculate_data_quality_score(other, hrv_window) > quality
    /\ \E other \in OtherHRWindows :
          /\ Len(other) = Len(hr_window)
          /\ OtherCv[other] > CvOf(hr_window)
          /\ CvOf(hr_window) # NaN
          /\ calculate_data_quality_score(other, hrv_window) < quality

(***************************************************************************)
(* C12: the confidence predict_rhythm returns is the larger of the two     *)
(* probabilities it returns, and these are the distribution predict_proba  *)
(* gave for the feature vector.                                            *)
(***************************************************************************)
Classified == pc \in {"predicted", "done"}

FeatureVector(row) == <<row.mean_heart_rate, row.std_heart_rate, row.pnn50>>

C12_ConfidenceIsMaxOfDistribution ==
    Classified
        => LET r == results_df[1]
               p == predict_proba(model_pipeline, FeatureVector(features_df[1]))
           IN /\ r.normal_probability = p[1]
              /\ r.irregular_probability = p[2]
              /\ r.confidence >= r.normal_probability
              /\ r.confidence >= r.irregular_probability
              /\ r.confidence \in {r.normal_probability, r.irregular_probability}

C12_Witness ==
    /\ pc = "predicted"
    /\ results_df[1].normal_probability > results_df[1].irregular_probability
    /\ results_df[1].irregular_probability > 0
    /\ results_df[1].confidence = results_df[1].normal_probability

(***************************************************************************)
(* C13: the label predict_rhythm returns is the entry of the table         *)
(* (0 -> Normal, 1 -> Irregular) at the index of the highest returned      *)
(* probability, the first index on a tie; it never names the class with    *)
(* the lower probability.                                                  *)
(***************************************************************************)
LabelTable == <<"Normal", "Irregular">>

HighestIndex(r) ==
    IF r.irregular_probability > r.normal_probability THEN 2 ELSE 1

InterpretationTemplate(label, high) ==
    IF label = "Normal"
    THEN IF high
         THEN "High confidence normal rhythm detected. Heart rate {} BPM within normal range."
         ELSE "Likely normal rhythm, but consider additional monitoring. Heart rate {} BPM."
    ELSE IF high
         THEN "High confidence irregular rhythm detected. Heart rate {} BPM. Recommend medical evaluation."
         ELSE "Possible irregular rhythm detected. Heart rate {} BPM. Consider further assessment."

\* bpm is the mean rate, in hundredths, rounded to a whole number
EmbedsMeanRate(bpm, mean_hr) ==
    /\ 100 * bpm - mean_hr <= 50
    /\ mean_hr - 100 * bpm <= 50

(***************************************************************************)
(* C15 as stated: the interpretation of a report is the high-confidence    *)
(* template of its label when confidence >= 0.8, exactly 0.8 included, the *)
(* low-confidence template below 0.8, and it embeds the mean rate.         *)
(***************************************************************************)
C15_ThresholdInclusive ==
    pc = "done"
        => LET r == results_df[1]
               text == health_report.clinical_interpretation
           IN /\ text.template =
                    InterpretationTemplate(r.rhythm_classification,
                                           r.confidence >= HighConfidence)
              /\ EmbedsMeanRate(text.bpm, r.mean_heart_rate)

(***************************************************************************)
(* C15 amended: the interpretation of a report is the high-confidence      *)
(* template of its label when confidence > 0.8 and the low-confidence      *)
(* template when confidence <= 0.8, exactly 0.8 included, and it embeds    *)
(* the mean rate.                                                          *)
(***************************************************************************)
C15_ThresholdStrict ==
    pc = "done"
        => LET r == results_df[1]
               text == health_report.clinical_interpretation
           IN /\ text.template =
                    InterpretationTemplate(r.rhythm_classification,
                                           r.confidence > HighConfidence)
              /\ EmbedsMeanRate(text.bpm, r.mean_heart_rate)

C15_Witness ==
    /\ pc = "done"
    /\ results_df[1].confidence = HighConfidence
    /\ results_df[1].rhythm_classification = "Irregular"
    /\ health_report.clinical_interpretation.template =
          InterpretationTemplate("Irregular", FALSE)

(***************************************************************************)
(* C16: the recommendations of a report are, in this order: the clinical   *)
(* follow-up advice iff the label is Irregular; the request for more data  *)
(* iff the label is Irregular and confidence < 0.7; the data quality tips  *)
(* iff the data quality score < 0.5; the two wellness reminders, always    *)
(* the last two entries.                                                   *)
(***************************************************************************)
FollowUpAdvice ==
    <<"Consult with a healthcare provider about irregular rhythm detection",
      "Continue regular monitoring with Apple Watch">>

MoreDataRequest == <<"Consider additional ECG recordings for confirmation">>

QualityTips ==
    <<"Improve data quality by ensuring proper Apple Watch fit",
      "Take readings during rest periods for better accuracy">>

WellnessReminders ==
    <<"Maintain regular physical activity as recommended by your doctor",
      "Continue monitoring trends over time">>

When(cond, part) == IF cond THEN part ELSE <<>>

C16_RecommendationOrder ==
    pc = "done"
        => LET r == results_df[1]
               abnormal == r.rhythm_classification = "Irregular"
               recs == health_report.recommendations
           IN /\ recs = When(abnormal, FollowUpAdvice)
                        \o When(abnormal /\ r.confidence < 700, MoreDataRequest)
                        \o When(r.data_quality_score < 5, QualityTips)
                        \o WellnessReminders
              /\ Len(recs) >= 2
              /\ SubSeq(recs, Len(recs) - 1, Len(recs)) = WellnessReminders

C16_Witness ==
    /\ pc = "done"
    /\ results_df[1].rhythm_classification = "Irregular"
    /\ results_df[1].confidence < 700
    /\ results_df[1].data_quality_score < 5
    /\ Len(health_report.recommendations) = 7

(***************************************************************************)
(* C17: the pnn50 of a feature vector is estimator A of the mean of the    *)
(* RMSSD samples of the HRV window, a value in [0, 0.6], exactly when the  *)
(* HRV window holds at least one RMSSD sample; otherwise it is estimator B *)
(* of the standard deviation of the heart rate window, a value in          *)
(* [0, 0.4].                                                               *)
(***************************************************************************)
FeaturesExtracted == features_df # NoFrame

OfKind(df, kind) == SelectSeq(df, LAMBDA r : r.type = kind)

EstimatorA == estimate_pnn50_from_rmssd(
                  SeriesMean(Column(OfKind(hrv_window, "RMSSD"), "value")))

EstimatorB == estimate_pnn50_from_hr_std(features_df[1].std_heart_rate)

C17_EstimatorByRmssdPresence ==
    FeaturesExtracted
        => LET pnn50 == features_df[1].pnn50
           IN IF \E i \in DOMAIN hrv_window : hrv_window[i].type = "RMSSD"
              THEN pnn50 = EstimatorA /\ pnn50 >= 0 /\ pnn50 <= 600
              ELSE pnn50 = EstimatorB /\ pnn50 >= 0 /\ pnn50 <= 400

\* a window of both kinds, where the two estimators and the mean over all
\* kinds give different values
C17_Witness ==
    /\ FeaturesExtracted
    /\ \E i \in DOMAIN hrv_window : hrv_window[i].type = "RMSSD"
    /\ \E i \in DOMAIN hrv_window : hrv_window[i].type = "SDNN"
    /\ features_df[1].pnn50 = EstimatorA
    /\ EstimatorA # EstimatorB
    /\ EstimatorA #
          estimate_pnn50_from_rmssd(SeriesMean(Column(hrv_window, "value")))

(***************************************************************************)
(* C18: predictor misconfiguration shows when the processor is            *)
(* constructed, never at prediction time: once construction has succeeded, *)
(* predict_rhythm never fails because the predictor is missing or is not   *)
(* the two-class rhythm predictor.                                         *)
(***************************************************************************)
PredictorFailure(e) ==
    /\ e.raised_by \in {"predict_rhythm", "predict"}
    /\ e.msg \in {"Model not loaded",
                  "X has 3 features, but StandardScaler is expecting 13 features as input"}

C18_MisconfigurationAtConstruction ==
    (Constructed /\ pc = "error") => ~PredictorFailure(error)

(***************************************************************************)
(* C19: a call of predict_rhythm leaves the loaded predictor, the metadata *)
(* and the feature frame it is given as they were; the prediction columns  *)
(* are in the frame it returns only.                                       *)
(***************************************************************************)
C19_PredictRhythmReadOnly ==
    [][pc = "features"
          => /\ model_pipeline' = model_pipeline
             /\ metadata' = metadata
             /\ features_df' = features_df]_vars

PredictionColumns ==
    {"prediction", "normal_probability", "irregular_probability",
     "confidence", "rhythm_classification"}

C19_Witness ==
    /\ pc = "predicted"
    /\ model_pipeline \in Predictors
    /\ PredictionColumns \subseteq DOMAIN results_df[1]
    /\ PredictionColumns \cap DOMAIN features_df[1] = {}
    /\ \A c \in DOMAIN features_df[1] : results_df[1][c] = features_df[1][c]

(***************************************************************************)
(* C14: with one loaded predictor, two runs of the pipeline on the same    *)
(* windowed heart rate and HRV frames give reports that are equal in every *)
(* field, the timestamp and the order of the recommendations included.     *)
(***************************************************************************)
RunInput(r) ==
    [heart_rate_df |-> runs[r].heart_rate_df,
     hrv_df |-> runs[r].hrv_df,
     time_window_hours |-> runs[r].time_window_hours]

RunTerminal(r) == runs[r].pc \in {"done", "error"}

Outcome(report, err) == [health_report |-> report, error |-> err]

\* the three stages one after the other, nothing in between
Alone(model, in) ==
    LET f == extract_features(in.heart_rate_df, in.hrv_df, in.time_window_hours)
    IN IF ~f.ok THEN Outcome(None, f.error)
       ELSE LET p == predict_rhythm(model, f.value)
            IN IF ~p.ok THEN Outcome(None, p.error)
               ELSE Outcome(generate_health_report(p.value), None)

C20_InterleavedRunsAsAlone ==
    /\ [][model_pipeline' = model_pipeline /\ metadata' = metadata]_vars
    /\ [](\A r \in DOMAIN runs :
             RunTerminal(r)
                => Outcome(runs[r].health_report, runs[r].error)
                      = Alone(model_pipeline, RunInput(r)))

\* two runs on different inputs, both between two of their stages, one of
\* them past the predictor
C20_Witness ==
    \E r1 \in DOMAIN runs : \E r2 \in DOMAIN runs :
        /\ RunInput(r1) # RunInput(r2)
        /\ runs[r1].pc = "features"
        /\ runs[r2].pc = "predicted"
        /\ model_pipeline \in Predictors

(***************************************************************************)
(* C21: the data quality score is computed once, by extract_features on    *)
(* the two windows, and reused: the quality_score of the report and the    *)
(* value that decides the data quality tips are the score stored in the    *)
(* feature vector, which predict_rhythm carries over unchanged.            *)
(***************************************************************************)
HasTips(recs) == \E i \in DOMAIN recs : recs[i] = QualityTips[1]

C21_ScoreComputedOnceAndReused ==
    /\ FeaturesExtracted
          => features_df[1].data_quality_score
                = calculate_data_quality_score(hr_window, hrv_window)
    /\ Classified
          => results_df[1].data_quality_score = features_df[1].data_quality_score
    /\ pc = "done"
          => /\ health_report.data_quality.quality_score
                   = features_df[1].data_quality_score
             /\ HasTips(health_report.recommendations)
                   <=> features_df[1].data_quality_score < 5

C21_Witness ==
    /\ pc = "done"
    /\ features_df[1].data_quality_score = 4
    /\ health_report.data_quality.quality_score = 4
    /\ ConsistencyScore(Column(hr_window, "value")) > 0
    /\ HasTips(health_report.recommendations)

(***************************************************************************)
(* C22: the frames process_healthkit_heart_rate and                        *)
(* process_healthkit_hrv_data return are in non-decreasing order of        *)
(* startDate, whatever the order of the supplied list; equal start times   *)
(* may occur.                                                              *)
(***************************************************************************)
Ascending(df) ==
    \A i \in 1..(Len(df) - 1) : df[i].startDate <= df[i + 1].startDate

C22_SeriesAscending ==
    /\ HrDone => Ascending(hr_df)
    /\ HrvDone => Ascending(hrv_df)

\* both lists supplied out of order, one with two samples of the same start
C22_Witness ==
    /\ HrvDone
    /\ ~Ascending(ToFrame(heart_rate_data))
    /\ ~Ascending(ToFrame(hrv_data))
    /\ \E i \in 1..(Len(hr_df) - 1) : hr_df[i].startDate = hr_df[i + 1].startDate
    /\ Len(hrv_df) >= 2

(***************************************************************************)
(* C23: when the heart rate window has at least 10 samples, exactly 10     *)
(* included, extract_features returns exactly one feature vector, whose    *)
(* sample_count_hr is the length of the heart rate window and whose        *)
(* sample_count_hrv is the length of the HRV window.                       *)
(***************************************************************************)
C23_OneFeatureVector ==
    (ExtractDone /\ Len(hr_window) >= 10)
        => /\ ~RaisedBy({"extract_features"})
           /\ Len(features_df) = 1
           /\ features_df[1].sample_count_hr = Len(hr_window)
           /\ features_df[1].sample_count_hr >= 10
           /\ features_df[1].sample_count_hrv = Len(hrv_window)

C23_Witness ==
    /\ pc = "features"
    /\ Len(hr_window) = 10
    /\ Len(hr_df) > 10
    /\ Len(features_df) = 1
    /\ features_df[1].sample_count_hr = 10
    /\ features_df[1].sample_count_hrv > GoodHRVCount

(***************************************************************************)
(* C24: every run of the driver terminates: when each stage that can be    *)
(* taken is taken, the run eventually has produced its report or caught an *)
(* error; a stage that waited for anything would leave it short of that.   *)
(***************************************************************************)
C24_RunTerminates == <>Terminal

C24_Witness ==
    /\ pc = "done"
    /\ health_report # None
    /\ Len(heart_rate_data) = MinSamples
    /\ time_window_hours = 2
    /\ predict_calls = 2


(***************************************************************************)
(* C25: the window is anchored on both series together: extract_features   *)
(* succeeds exactly when at least 10 validated heart rate samples start no *)
(* earlier than the latest start time of the two series together minus the *)
(* window length; so a heart rate series of 10 or more samples still fails *)
(* with insufficient data when the newest HRV sample is later by more than *)
(* the window length than all but fewer than 10 of them.                   *)
(***************************************************************************)
\* the validated heart rate samples starting at most the window length before t
PrimaryWithin(t) ==
    {i \in DOMAIN hr_df : hr_df[i].startDate >= t - 60 * time_window_hours}

NewestOf(df) == SetMax({r.startDate : r \in Rows(df)})

C25_AnchoredOnBothSeries ==
    ExtractDone
        => /\ ~RaisedBy({"extract_features"})
                 <=> /\ hr_df # <<>>
                     /\ Cardinality(PrimaryWithin(NewestOf(hr_df \o hrv_df)))
                            >= MinSamples
           /\ (/\ Len(hr_df) >= MinSamples
               /\ hrv_df # <<>>
               /\ Cardinality(PrimaryWithin(NewestOf(hrv_df))) < MinSamples)
                 => /\ pc = "error"
                    /\ InsufficientDataError(error)

C25_Witness ==
    /\ pc = "error"
    /\ InsufficientDataError(error)
    /\ hr_df # <<>>
    /\ hrv_df # <<>>
    /\ Cardinality(PrimaryWithin(NewestOf(hr_df))) >= MinSamples
    /\ Cardinality(PrimaryWithin(NewestOf(hrv_df))) < MinSamples
    /\ NewestOf(hrv_df) > NewestOf(hr_df)


(***************************************************************************)
(* C26: in every run that reaches quality scoring, the coefficient of      *)
(* variation is well defined and non-negative: the heart rate window holds *)
(* at least 10 validated values, each at least 30, so its mean is at least *)
(* 30 and the standard deviation is never divided by zero.                 *)
(***************************************************************************)
C26_CvWellDefined ==
    FeaturesExtracted
        => LET vals == Column(hr_window, "value")
           IN /\ Len(vals) >= 10
              /\ \A i \in DOMAIN vals : vals[i] >= 30
              /\ SeriesMean(vals) >= 30 * 100
              /\ SeriesStd(vals) # NaN
              /\ CoefficientOfVariation(vals) >= 0

C26_Witness ==
    /\ FeaturesExtracted
    /\ \E i \in DOMAIN hr_window : hr_window[i].value = HRMin
    /\ \E i \in DOMAIN heart_rate_data : heart_rate_data[i].value < HRMin
    /\ CoefficientOfVariation(Column(hr_window, "value")) > 0


(***************************************************************************)
(* C27: the interpretation and the recommendations of one report agree:    *)
(* whenever the recommendations hold the request for additional ECG        *)
(* recordings, the label of the report is Irregular and its interpretation *)
(* is the low-confidence irregular template, never a high-confidence one.  *)
(***************************************************************************)
HasMoreDataRequest(recs) == \E i \in DOMAIN recs : recs[i] = MoreDataRequest[1]

C27_InterpretationAgreesWithAdvice ==
    (pc = "done" /\ HasMoreDataRequest(health_report.recommendations))
        => LET text == health_report.clinical_interpretation.template
           IN /\ health_report.rhythm_classification = "Irregular"
              /\ text = InterpretationTemplate("Irregular", FALSE)
              /\ text # InterpretationTemplate("Irregular", TRUE)
              /\ text # InterpretationTemplate("Normal", TRUE)

C27_Witness ==
    /\ pc = "done"
    /\ HasMoreDataRequest(health_report.recommendations)
    /\ health_report.confidence_score < LowConfidence
    /\ health_report.clinical_interpretation.template =
          "Possible irregular rhythm detected. Heart rate {} BPM. Consider further assessment."


(***************************************************************************)
(* C28: the validators only remove samples: every supplied sample whose    *)
(* value is inside the plausibility interval is in the output with all its *)
(* fields unchanged and as often as it was supplied, no sample is added,   *)
(* and the number kept plus the number reported as removed is the number   *)
(* supplied.                                                               *)
(***************************************************************************)
\* out holds exactly the rows of supplied with value in [lo, hi], each as
\* often as supplied holds it, and reports the others as removed
OnlyRemoves(supplied, out, lo, hi) ==
    /\ \A r \in Rows(supplied) :
          (r.value >= lo /\ r.value <= hi) => Count(out, r) = Count(supplied, r)
    /\ \A r \in Rows(out) : Count(out, r) <= Count(supplied, r)
    /\ Len(out) + RemovedCount(supplied, out) = Len(supplied)
    /\ RemovedCount(supplied, out) =
          Cardinality({i \in DOMAIN supplied :
                          supplied[i].value < lo \/ supplied[i].value > hi})

C28_ValidatorOnlyRemoves ==
    /\ HrDone => OnlyRemoves(ToFrame(heart_rate_data), hr_df, 30, 250)
    /\ HrvDone => OnlyRemoves(ToFrame(hrv_data), hrv_df, 1, 200)

\* a sample supplied twice and kept twice, next to a removed one
C28_Witness ==
    /\ HrvDone
    /\ \E r \in Rows(hr_df) : Count(hr_df, r) = 2 /\ r.value = HRMin
    /\ Len(hr_df) = Len(heart_rate_data) - 1
    /\ Len(hrv_df) = Len(hrv_data)
    /\ hrv_df # <<>>


(***************************************************************************)
(* C29: the availability contribution to the quality score and the HRV     *)
(* sample count of a feature vector count every sample of the HRV window,  *)
(* SDNN and RMSSD alike, whereas the choice of the estimator looks at the  *)
(* RMSSD samples only; so a window with 5 or more SDNN samples and no      *)
(* RMSSD sample gets the full +0.3 while pnn50 comes from estimator B.     *)
(***************************************************************************)
\* what the HRV window added to the score of the feature vector
AvailabilityPart ==
    features_df[1].data_quality_score
        - ClaimedPrimary(Len(hr_window))
        - ClaimedStability(Column(hr_window, "value"))

C29_AvailabilityCountsEveryKind ==
    FeaturesExtracted
        => LET sdnn  == Len(OfKind(hrv_window, "SDNN"))
               rmssd == Len(OfKind(hrv_window, "RMSSD"))
           IN /\ features_df[1].sample_count_hrv = sdnn + rmssd
              /\ AvailabilityPart = ClaimedSecondary(sdnn + rmssd)
              /\ features_df[1].pnn50 = IF rmssd > 0 THEN EstimatorA ELSE EstimatorB
              /\ (sdnn >= 5 /\ rmssd = 0)
                    => /\ AvailabilityPart = 3
                       /\ features_df[1].pnn50 = EstimatorB

C29_Witness ==
    /\ FeaturesExtracted
    /\ Len(OfKind(hrv_window, "SDNN")) >= 5
    /\ OfKind(hrv_window, "RMSSD") = <<>>
    /\ AvailabilityPart = 3
    /\ features_df[1].sample_count_hrv = Len(hrv_window)
    /\ features_df[1].pnn50 = EstimatorB
    /\ features_df[1].pnn50 #
          estimate_pnn50_from_rmssd(SeriesMean(Column(hrv_window, "value")))


(***************************************************************************)
(* C30: a failed call leaves the processor unchanged: when                 *)
(* process_healthkit_heart_rate, process_healthkit_hrv_data or             *)
(* extract_features raises, the loaded predictor and the metadata are what *)
(* they were before the call, and a pipeline run that follows on the same  *)
(* processor ends as the same lists end on a processor no call has failed  *)
(* on: with the same report for valid input.                               *)
(***************************************************************************)
\* the five calls of a run one after the other on a processor holding model
Pipeline(model, hr_list, hrv_list, hours) ==
    LET hr == process_healthkit_heart_rate(hr_list)
    IN IF ~hr.ok THEN Outcome(None, hr.error)
       ELSE LET hrv == process_healthkit_hrv_data(hrv_list)
            IN IF ~hrv.ok THEN Outcome(None, hrv.error)
               ELSE Alone(model, [heart_rate_df |-> hr.value,
                                  hrv_df |-> hrv.value,
                                  time_window_hours |-> hours])

CallFails == pc' = "error" /\ error'.raised_by \in FailingCalls

C30_FailedCallLeavesProcessor ==
    /\ [][CallFails => (model_pipeline' = model_pipeline /\ metadata' = metadata)]_vars
    /\ []((runs # <<>> /\ Terminal)
             => /\ model_pipeline # None
                /\ Outcome(health_report, error)
                      = Pipeline(model_pipeline, heart_rate_data, hrv_data,
                                 time_window_hours))

\* a report made after two calls of different methods failed on the processor
C30_Witness ==
    /\ Len(runs) = 2
    /\ runs[1].error.raised_by # runs[2].error.raised_by
    /\ pc = "done"
    /\ health_report # None
    /\ metadata # None

====
